---- MODULE Spec2Model ----
(***************************************************************************)
(* Model of src/app.py: the text-orientation heuristic                     *)
(* (detect_text_orientation_improved, analyze_text_orientations) and the   *)
(* lazy initialisation of the per-language OCR engine handles              *)
(* (initialize_ocr, get_ocr_instance, /health, /init, /process).           *)
(***************************************************************************)
EXTENDS Integers, Sequences, FiniteSets, TLC

VARIABLES
    coordinates,       \* argument of detect_text_orientation_improved
    orientation,       \* <<>> before the call, <<r>> once it returned r
    angle,             \* <<>>, or <<a>> once the call computed the local angle
    coordinates_list,  \* argument of analyze_text_orientations
    permuted_list,     \* a permutation of coordinates_list
    orientations,      \* <<>> or <<tally>> returned for coordinates_list
    orientations_perm, \* <<>> or <<tally>> returned for permuted_list
    ocr_instances,     \* module global: language -> engine handle
    ocr_initialized,   \* module global flag
    created,           \* history: PaddleOCR(...) constructions per language
    pc,                \* per thread: position in the code
    caller,            \* per thread: who called initialize_ocr
    lang_idx,          \* per thread: position of the for loop of line 54
    tier,              \* per thread: configuration being tried (1..3)
    language,          \* per thread: requested language
    ret,               \* per thread: value returned by initialize_ocr
    ocr,               \* per thread: <<>> or <<value of get_ocr_instance>>
    health_status      \* status of the last /health response

classifyVars == <<coordinates, orientation, angle>>
aggregateVars == <<coordinates_list, permuted_list, orientations,
                   orientations_perm>>
globalVars == <<ocr_instances, ocr_initialized, created>>
threadVars == <<pc, caller, lang_idx, tier, language, ret, ocr>>
serviceVars == <<globalVars, threadVars, health_status>>
vars == <<classifyVars, aggregateVars, serviceVars>>

----------------------------------------------------------------------------
(* Bounds of the model.                                                    *)

MaxX == 1        \* grid polygons: x in 0..MaxX
MaxY == 2        \* grid polygons: y in 0..MaxY
MaxPts == 4      \* grid polygons: at most MaxPts points
MaxList == 3     \* analyze_text_orientations: at most MaxList polygons
MaxThreads == 2  \* request threads of the server
MaxBuilds == 2   \* PaddleOCR(...) calls that return, per language

----------------------------------------------------------------------------
(* Points and polygons.  A well-formed point is a pair <<x, y>>; a value   *)
(* with fewer than two components (here <<>>) makes point[0] or point[1]   *)
(* raise.                                                                  *)

GridPoints == {<<x, y>> : x \in 0..MaxX, y \in 0..MaxY}
BadPoint == <<>>
Points == GridPoints \cup {BadPoint}

(* Polygons with larger coordinates: the three scenarios of the           *)
(* specification and polygons next to each threshold of the decision.      *)
Wide      == << <<0, 0>>, <<100, 0>>, <<100, 20>>, <<0, 20>> >>
Tall      == << <<0, 0>>, <<10, 0>>, <<10, 100>>, <<0, 100>> >>
Diamond   == << <<0, 0>>, <<70, 70>>, <<40, 100>>, <<-30, 30>> >>
Leftward  == << <<100, 0>>, <<0, 0>>, <<0, 20>>, <<100, 20>> >>
ZeroWidth == << <<5, 0>>, <<5, 10>>, <<5, 20>>, <<5, 3>> >>
Short     == << <<5, 0>>, <<5, 10>>, <<5, 20>> >>
Broken    == << <<0, 0>>, <<10, 0>>, BadPoint, <<0, 100>> >>
Over25    == << <<0, 0>>, <<15, 7>>, <<15, 17>>, <<0, 10>> >>
Under25   == << <<0, 0>>, <<13, 6>>, <<13, 16>>, <<0, 10>> >>
Under155  == << <<15, 0>>, <<0, 7>>, <<0, 17>>, <<15, 10>> >>
Over155   == << <<13, 0>>, <<0, 6>>, <<0, 16>>, <<13, 10>> >>
Shallow   == << <<0, 0>>, <<3, 1>>, <<3, 8>>, <<0, 7>> >>
Ratio25   == << <<0, 0>>, <<2, 5>>, <<2, 4>>, <<0, 1>> >>
Ratio18   == << <<0, 0>>, <<5, 0>>, <<5, 9>>, <<0, 9>> >>
Ratio2    == << <<0, 0>>, <<5, 0>>, <<5, 10>>, <<0, 10>> >>
Pentagon  == << <<0, 0>>, <<4, 0>>, <<6, 3>>, <<2, 5>>, <<-2, 3>> >>
TallSteep == << <<0, 0>>, <<1, 3>>, <<1, 0>>, <<0, 3>> >>
TallLeft  == << <<2, 0>>, <<0, 0>>, <<0, 7>>, <<2, 7>> >>

SamplePolygons == {Wide, Tall, Diamond, Leftward, ZeroWidth, Short, Broken,
                   Over25, Under25, Under155, Over155, Shallow, Ratio25,
                   Ratio18, Ratio2, Pentagon, TallSteep, TallLeft}

Abs(n) == IF n < 0 THEN -n ELSE n

RECURSIVE SeqMax(_)
SeqMax(s) == IF Len(s) = 1 THEN s[1]
             ELSE LET m == SeqMax(Tail(s)) IN IF s[1] > m THEN s[1] ELSE m

RECURSIVE SeqMin(_)
SeqMin(s) == IF Len(s) = 1 THEN s[1]
             ELSE LET m == SeqMin(Tail(s)) IN IF s[1] < m THEN s[1] ELSE m

(* floor(tan(d degrees) * 10^5) for d = 1..89; tan(45) = 1 is exact.  The  *)
(* products below stay within 32 bits for components up to 300.            *)
TanTable == <<
 1745, 3492, 5240, 6992, 8748, 10510, 12278, 14054, 15838, 17632,
 19438, 21255, 23086, 24932, 26794, 28674, 30573, 32491, 34432, 36397,
 38386, 40402, 42447, 44522, 46630, 48773, 50952, 53170, 55430, 57735,
 60086, 62486, 64940, 67450, 70020, 72654, 75355, 78128, 80978, 83909,
 86928, 90040, 93251, 96568, 100000, 103553, 107236, 111061, 115036,
 119175, 123489, 127994, 132704, 137638, 142814, 148256, 153986,
 160033, 166427, 173205, 180404, 188072, 196261, 205030, 214450,
 224603, 235585, 247508, 260508, 274747, 290421, 307768, 327085,
 348741, 373205, 401078, 433147, 470463, 514455, 567128, 631375,
 711536, 814434, 951436, 1143005, 1430066, 1908113, 2863625, 5728996 >>

(* abs(np.arctan2(dy, dx) * 180 / np.pi), rounded down to whole degrees.   *)
(* arctan2(0, 0) = 0 and arctan2(0, dx < 0) = pi, so the value 180 is      *)
(* produced.  For dx # 0 and dy # 0 the acute angle t = atan(|dy|/|dx|) is *)
(* located in the tangent table: floor(t) counts the d with tan d <= r,    *)
(* ceil(t) the d (from 0) with tan d < r, and the angle is t for dx > 0    *)
(* and 180 - t for dx < 0.                                                 *)
(* Mutant: the abs() of line 178 is dropped.                               *)
AngleDegSigned(dy, dx) ==
    IF dy = 0 THEN (IF dx < 0 THEN 180 ELSE 0)
    ELSE LET t == IF dx = 0 THEN 90
                  ELSE IF dx > 0
                  THEN Cardinality({d \in 1..89 :
                           TanTable[d] * Abs(dx) <= Abs(dy) * 100000})
                  ELSE 179 - Cardinality({d \in 1..89 :
                           TanTable[d] * Abs(dx) < Abs(dy) * 100000})
         IN  IF dy < 0 THEN -t ELSE t

AngleDeg(dy, dx) ==
    IF dy = 0 THEN (IF dx < 0 THEN 180 ELSE 0)
    ELSE IF dx = 0 THEN 90
    ELSE LET floorT == Cardinality({d \in 1..89 :
                            TanTable[d] * Abs(dx) <= Abs(dy) * 100000})
             ceilT  == 1 + Cardinality({d \in 1..89 :
                            TanTable[d] * Abs(dx) < Abs(dy) * 100000})
         IN  IF dx > 0 THEN floorT ELSE 180 - ceilT

(* "angle > 25 and angle < 155" on the whole-degree value.  No vector with *)
(* integer components has an angle of exactly 25 degrees (tan 25 is        *)
(* irrational), so angle > 25 is floor(angle) >= 25; angle < 155 is        *)
(* floor(angle) < 155.                                                     *)
AngleLow == 25
AngleHigh == 155
(* Mutant: the test "angle < 155" of line 183 is dropped.                  *)
AngleRotatedNoUpper(a) == a >= AngleLow

AngleRotated(a) == a >= AngleLow /\ a < AngleHigh

(* Lines 170-188: the decision on width, height and the first edge.  The   *)
(* angle is passed as the vector of the first edge because the code        *)
(* computes it only after the zero-width return.  height / width > 2.5 and *)
(* height / width > 1.8 are compared exactly, cross-multiplied.            *)
(* Mutant: the angle is tested before the 2.5 ratio.                       *)
DecideAngleFirst(width, height, dy, dx) ==
    IF width = 0 THEN "vertical"
    ELSE IF AngleRotated(AngleDeg(dy, dx)) THEN "rotated"
    ELSE IF 2 * height > 5 * width THEN "vertical"
    ELSE IF 10 * height > 18 * width THEN "vertical"
    ELSE "horizontal"

(* Mutant: the 1.8 ratio is tested before the angle.                       *)
DecideRatioFirst(width, height, dy, dx) ==
    IF width = 0 THEN "vertical"
    ELSE IF 2 * height > 5 * width THEN "vertical"
    ELSE IF 10 * height > 18 * width THEN "vertical"
    ELSE IF AngleRotated(AngleDeg(dy, dx)) THEN "rotated"
    ELSE "horizontal"

(* Mutant: the zero-width return of lines 170-171 is missing, so line 174  *)
(* divides by zero.                                                        *)
DecideNoZeroCheck(width, height, dy, dx) ==
    IF width = 0 THEN "RAISE"
    ELSE IF 2 * height > 5 * width THEN "vertical"
    ELSE IF AngleRotated(AngleDeg(dy, dx)) THEN "rotated"
    ELSE IF 10 * height > 18 * width THEN "vertical"
    ELSE "horizontal"

Decide(width, height, dy, dx) ==
    IF width = 0 THEN "vertical"
    ELSE IF 2 * height > 5 * width THEN "vertical"
    ELSE IF AngleRotated(AngleDeg(dy, dx)) THEN "rotated"
    ELSE IF 10 * height > 18 * width THEN "vertical"
    ELSE "horizontal"

Malformed(c) == \E i \in 1..Len(c) : Len(c[i]) < 2
XCoords(c) == [i \in 1..Len(c) |-> c[i][1]]
YCoords(c) == [i \in 1..Len(c) |-> c[i][2]]
Width(c) == SeqMax(XCoords(c)) - SeqMin(XCoords(c))
Height(c) == SeqMax(YCoords(c)) - SeqMin(YCoords(c))
EdgeDy(c) == c[2][2] - c[1][2]
EdgeDx(c) == c[2][1] - c[1][1]

(* Body of the try block of detect_text_orientation_improved: the value    *)
(* returned, "RAISE" when an exception is thrown inside it, "FALLTHROUGH"  *)
(* when the block ends without returning (fewer than 4 points).            *)
TryBody(c) ==
    IF Len(c) >= 4 THEN
        IF Malformed(c) THEN "RAISE"
        ELSE Decide(Width(c), Height(c), EdgeDy(c), EdgeDx(c))
    ELSE "FALLTHROUGH"

(* Mutant: no except clause, the exception leaves the function.            *)
detect_without_except(c) ==
    LET r == TryBody(c)
    IN  IF r = "FALLTHROUGH" THEN "horizontal" ELSE r

(* The bare except of line 189 and the return of line 191.                 *)
detect_text_orientation_improved(c) ==
    LET r == TryBody(c)
    IN  IF r \in {"RAISE", "FALLTHROUGH"} THEN "horizontal" ELSE r

(* The local variable angle of line 178: <<>> when line 178 is not         *)
(* reached, <<a>> when it is.                                              *)
ComputedAngle(c) ==
    IF Len(c) >= 4 /\ ~Malformed(c) /\ Width(c) # 0
    THEN <<AngleDeg(EdgeDy(c), EdgeDx(c))>>
    ELSE <<>>

----------------------------------------------------------------------------
(* analyze_text_orientations (lines 193-203).                              *)

EmptyTally == [horizontal |-> 0, vertical |-> 0, rotated |-> 0]

(* The for loop of lines 199-201, from position i with tally acc.          *)
RECURSIVE TallyLoop(_, _, _)
TallyLoop(cl, i, acc) ==
    IF i > Len(cl) THEN acc
    ELSE LET o == detect_text_orientation_improved(cl[i])
         IN  TallyLoop(cl, i + 1, [acc EXCEPT ![o] = @ + 1])

(* Mutant: the loop starts at the second polygon.                          *)
analyze_skipping_first(cl) == TallyLoop(cl, 2, EmptyTally)

(* Mutant: the return of line 203 is inside the loop.                      *)
analyze_first_only(cl) ==
    IF Len(cl) = 0 THEN EmptyTally
    ELSE TallyLoop(SubSeq(cl, 1, 1), 1, EmptyTally)

analyze_text_orientations(cl) == TallyLoop(cl, 1, EmptyTally)

(* Polygons the lists are drawn from: one of each orientation from the     *)
(* scenarios of the specification, and the degenerate and malformed ones.  *)
ListPolygons == {Wide, Tall, Diamond, ZeroWidth, Short, Broken, Ratio2}

Injective(f) == \A a, b \in DOMAIN f : f[a] = f[b] => a = b
IndexPermutations(n) == {p \in [1..n -> 1..n] : Injective(p)}
Permute(cl, p) == [i \in 1..Len(cl) |-> cl[p[i]]]

----------------------------------------------------------------------------
(* The engine handles (lines 19-22, 43-155, 246-286).                      *)

supported_languages == <<"en", "es">>
default_lang == "es"
LastTier == 3    \* each language has three configurations to try
None == <<>>
EmptyDict == [k \in {} |-> None]

MainThread == 0
RequestThreads == 1..MaxThreads
Threads == {MainThread} \cup RequestThreads
RequestLanguages == {"en", "es", "fr", ""}

(* dict.get(k, default) *)
DictGet(d, k, default) == IF k \in DOMAIN d THEN d[k] ELSE default
(* d[k] = v *)
DictSet(d, k, v) == [x \in DOMAIN d \cup {k} |-> IF x = k THEN v ELSE d[x]]

(* Lines 154-155: lang = language or default_lang;                         *)
(* ocr_instances.get(lang, ocr_instances.get("es")).                       *)
Lookup(d, requested) ==
    LET lang == IF requested = "" THEN default_lang ELSE requested
    IN  DictGet(d, lang, DictGet(d, "es", None))

(* Line 249: the status /health reports.                                   *)
HealthStatus(flag) == IF flag THEN "healthy" ELSE "initializing"

ClassifyIdle ==
    /\ coordinates = <<>>
    /\ orientation = <<>>
    /\ angle = <<>>

AggregateIdle ==
    /\ coordinates_list = <<>>
    /\ permuted_list = <<>>
    /\ orientations = <<>>
    /\ orientations_perm = <<>>

(* The module as loaded: lines 19-22, no thread inside any function.       *)
ServiceInit ==
    /\ ocr_instances = EmptyDict
    /\ ocr_initialized = FALSE
    /\ created = [l \in {"en", "es"} |-> 0]
    /\ pc = [t \in Threads |-> IF t = MainThread THEN "boot" ELSE "idle"]
    /\ caller = [t \in Threads |-> "none"]
    /\ lang_idx = [t \in Threads |-> 0]
    /\ tier = [t \in Threads |-> 0]
    /\ language = [t \in Threads |-> ""]
    /\ ret = [t \in Threads |-> FALSE]
    /\ ocr = [t \in Threads |-> <<>>]
    /\ health_status = "none"

----------------------------------------------------------------------------
(* The orientation functions applied to bounded inputs.                    *)

InitClassify ==
    /\ \/ \E n \in 0..MaxPts : coordinates \in [1..n -> Points]
       \/ coordinates \in SamplePolygons
    /\ orientation = <<>>
    /\ angle = <<>>
    /\ AggregateIdle
    /\ ServiceInit

Classify ==
    /\ orientation = <<>>
    /\ orientation' = <<detect_text_orientation_improved(coordinates)>>
    /\ angle' = ComputedAngle(coordinates)
    /\ UNCHANGED <<coordinates, aggregateVars, serviceVars>>

SpecClassify == InitClassify /\ [][Classify]_vars

InitAggregate ==
    /\ \E n \in 0..MaxList :
         /\ coordinates_list \in [1..n -> ListPolygons]
         /\ \E p \in IndexPermutations(n) :
              permuted_list = Permute(coordinates_list, p)
    /\ orientations = <<>>
    /\ orientations_perm = <<>>
    /\ ClassifyIdle
    /\ ServiceInit

Analyze ==
    /\ orientations = <<>>
    /\ orientations' = <<analyze_text_orientations(coordinates_list)>>
    /\ UNCHANGED <<coordinates_list, permuted_list, orientations_perm,
                   classifyVars, serviceVars>>

AnalyzePermuted ==
    /\ orientations_perm = <<>>
    /\ orientations_perm' = <<analyze_text_orientations(permuted_list)>>
    /\ UNCHANGED <<coordinates_list, permuted_list, orientations,
                   classifyVars, serviceVars>>

NextAggregate == Analyze \/ AnalyzePermuted

SpecAggregate == InitAggregate /\ [][NextAggregate]_vars

----------------------------------------------------------------------------
(* The server.  A thread is at one of these positions:                     *)
(*   boot        main thread, before line 398                              *)
(*   serving     main thread, inside app.run (line 411)                    *)
(*   idle        request thread with no request                            *)
(*   init_check  initialize_ocr entered, before line 46                    *)
(*   import      before line 51                                            *)
(*   construct   before a PaddleOCR(...) call of lines 61-122              *)
(*   set_flag    before line 125                                           *)
(*   init_ret    initialize_ocr returned ret[t] to caller[t]               *)
(*   validate    process_file before line 274                              *)
(*   get_check   get_ocr_instance entered, before line 150                 *)
(*   lookup      before line 154                                           *)
(*   got         get_ocr_instance returned ocr[t]                          *)

Set(f, t, v) == [f EXCEPT ![t] = v]

(* Lines 390-398: run as a script, the main thread pre-loads the models    *)
(* before it serves.                                                       *)
StartupPreload ==
    /\ pc[MainThread] = "boot"
    /\ pc' = Set(pc, MainThread, "init_check")
    /\ caller' = Set(caller, MainThread, "startup")
    /\ UNCHANGED <<globalVars, lang_idx, tier, language, ret, ocr,
                   health_status, classifyVars, aggregateVars>>

(* Imported by a WSGI server: the block of line 390 does not run.          *)
ImportedAsModule ==
    /\ pc[MainThread] = "boot"
    /\ pc' = Set(pc, MainThread, "serving")
    /\ UNCHANGED <<globalVars, caller, lang_idx, tier, language, ret,
                   ocr, health_status, classifyVars, aggregateVars>>

CanBegin(t) ==
    /\ t \in RequestThreads
    /\ pc[MainThread] = "serving"
    /\ pc[t] = "idle"

(* /init, lines 254-257.                                                   *)
BeginInit(t) ==
    /\ CanBegin(t)
    /\ pc' = Set(pc, t, "init_check")
    /\ caller' = Set(caller, t, "init")
    /\ UNCHANGED <<globalVars, lang_idx, tier, language, ret, ocr,
                   health_status, classifyVars, aggregateVars>>

(* /process, lines 265-271: the flag is read at line 270.                  *)
BeginProcess(t) ==
    /\ CanBegin(t)
    /\ IF ~ocr_initialized
       THEN /\ pc' = Set(pc, t, "init_check")
            /\ caller' = Set(caller, t, "process")
       ELSE /\ pc' = Set(pc, t, "validate")
            /\ UNCHANGED caller
    /\ UNCHANGED <<globalVars, lang_idx, tier, language, ret, ocr,
                   health_status, classifyVars, aggregateVars>>

(* get_ocr_instance() called on its own with its default argument         *)
(* language=None (line 147), here "".                                      *)
BeginGet(t) ==
    /\ CanBegin(t)
    /\ language' = Set(language, t, "")
    /\ pc' = Set(pc, t, "get_check")
    /\ UNCHANGED <<globalVars, caller, lang_idx, tier, ret, ocr,
                   health_status, classifyVars, aggregateVars>>

(* /health, lines 246-252.                                                 *)
Health(t) ==
    /\ t \in RequestThreads
    /\ pc[MainThread] = "serving"
    /\ pc[t] = "idle"
    /\ health_status' = HealthStatus(ocr_initialized)
    /\ UNCHANGED <<globalVars, threadVars, classifyVars,
                   aggregateVars>>

(* Lines 46-47.                                                            *)
InitCheck(t) ==
    /\ pc[t] = "init_check"
    /\ IF ocr_initialized
       THEN /\ ret' = Set(ret, t, TRUE)
            /\ pc' = Set(pc, t, "init_ret")
       ELSE /\ pc' = Set(pc, t, "import")
            /\ UNCHANGED ret
    /\ UNCHANGED <<globalVars, caller, lang_idx, tier, language, ocr,
                   health_status, classifyVars, aggregateVars>>

(* Mutant: the flag of line 125 is set before the loop of line 54.         *)
ImportOkSetsFlag(t) ==
    /\ pc[t] = "import"
    /\ pc' = Set(pc, t, "construct")
    /\ lang_idx' = Set(lang_idx, t, 1)
    /\ tier' = Set(tier, t, 1)
    /\ ocr_initialized' = TRUE
    /\ UNCHANGED <<ocr_instances, created, caller, language, ret, ocr,
                   health_status, classifyVars, aggregateVars>>

(* Line 51 succeeds: the loop of line 54 starts at its first language.     *)
ImportOk(t) ==
    /\ pc[t] = "import"
    /\ pc' = Set(pc, t, "construct")
    /\ lang_idx' = Set(lang_idx, t, 1)
    /\ tier' = Set(tier, t, 1)
    /\ UNCHANGED <<globalVars, caller, language, ret, ocr,
                   health_status, classifyVars, aggregateVars>>

(* Line 51 raises: lines 141-145 return False.                             *)
ImportFails(t) ==
    /\ pc[t] = "import"
    /\ ret' = Set(ret, t, FALSE)
    /\ pc' = Set(pc, t, "init_ret")
    /\ UNCHANGED <<globalVars, caller, lang_idx, tier, language, ocr,
                   health_status, classifyVars, aggregateVars>>

(* The handle a PaddleOCR(...) call returns: a new object each time.       *)
NewHandle(l, n) == <<l, n>>

(* A PaddleOCR(...) call of lines 61, 82, 94, 101, 118 or 122 returns and  *)
(* its result is stored in ocr_instances[lang]; the loop goes on to the    *)
(* next language, or ends.                                                 *)
ConstructOk(t) ==
    /\ pc[t] = "construct"
    /\ LET l == supported_languages[lang_idx[t]]
       IN  /\ created[l] < MaxBuilds
           /\ created' = [created EXCEPT ![l] = @ + 1]
           /\ ocr_instances' =
                  DictSet(ocr_instances, l, NewHandle(l, created[l] + 1))
    /\ IF lang_idx[t] < Len(supported_languages)
       THEN /\ lang_idx' = Set(lang_idx, t, lang_idx[t] + 1)
            /\ tier' = Set(tier, t, 1)
            /\ UNCHANGED pc
       ELSE /\ pc' = Set(pc, t, "set_flag")
            /\ lang_idx' = Set(lang_idx, t, 0)
            /\ tier' = Set(tier, t, 0)
    /\ UNCHANGED <<ocr_initialized, caller, language, ret, ocr,
                   health_status, classifyVars, aggregateVars>>

(* A PaddleOCR(...) call raises: the next configuration is tried (lines    *)
(* 77, 92, 113, 120); the last one has no handler of its own, so the       *)
(* exception reaches line 141 and initialize_ocr returns False.            *)
ConstructFails(t) ==
    /\ pc[t] = "construct"
    /\ IF tier[t] < LastTier
       THEN /\ tier' = Set(tier, t, tier[t] + 1)
            /\ UNCHANGED <<pc, lang_idx, ret>>
       ELSE /\ ret' = Set(ret, t, FALSE)
            /\ pc' = Set(pc, t, "init_ret")
            /\ lang_idx' = Set(lang_idx, t, 0)
            /\ tier' = Set(tier, t, 0)
    /\ UNCHANGED <<globalVars, caller, language, ocr, health_status, classifyVars, aggregateVars>>

(* Lines 125-139.  The loop of line 129 only reads.                        *)
SetFlag(t) ==
    /\ pc[t] = "set_flag"
    /\ ocr_initialized' = TRUE
    /\ ret' = Set(ret, t, TRUE)
    /\ pc' = Set(pc, t, "init_ret")
    /\ UNCHANGED <<ocr_instances, created, caller, lang_idx, tier,
                   language, ocr, health_status, classifyVars,
                   aggregateVars>>

(* initialize_ocr returns to its caller: line 398 (then app.run), line     *)
(* 257 (then the response), line 271 (503 on False), line 151 (None on     *)
(* False).  A thread that has answered forgets its locals.                 *)
InitReturn(t) ==
    /\ pc[t] = "init_ret"
    /\ caller' = Set(caller, t, "none")
    /\ CASE caller[t] = "startup" ->
              /\ pc' = Set(pc, t, "serving")
                        /\ ret' = Set(ret, t, FALSE)
              /\ UNCHANGED ocr
         [] caller[t] = "init" ->
              /\ pc' = Set(pc, t, "idle")
                        /\ ret' = Set(ret, t, FALSE)
              /\ UNCHANGED ocr
         [] caller[t] = "process" ->
              /\ pc' = Set(pc, t, IF ret[t] THEN "validate" ELSE "idle")
                        /\ ret' = Set(ret, t, FALSE)
              /\ UNCHANGED ocr
         [] caller[t] = "get" ->
              /\ pc' = Set(pc, t, IF ret[t] THEN "lookup" ELSE "got")
              /\ ocr' = Set(ocr, t, IF ret[t] THEN ocr[t] ELSE <<None>>)
              /\ UNCHANGED ret
    /\ UNCHANGED <<globalVars, lang_idx, tier, language, health_status, classifyVars, aggregateVars>>

(* Lines 274-279: a request without a valid file is answered 400.          *)
RejectFile(t) ==
    /\ pc[t] = "validate"
    /\ pc' = Set(pc, t, "idle")
    /\ UNCHANGED <<globalVars, caller, lang_idx, tier, language, ret, ocr,
                   health_status, classifyVars, aggregateVars>>

(* Lines 281-284: the language is read from the form and                   *)
(* get_ocr_instance(language) is called.                                   *)
AcceptFile(t, requested) ==
    /\ pc[t] = "validate"
    /\ language' = Set(language, t, requested)
    /\ pc' = Set(pc, t, "get_check")
    /\ UNCHANGED <<globalVars, caller, lang_idx, tier, ret, ocr,
                   health_status, classifyVars, aggregateVars>>

(* Lines 150-151.                                                          *)
GetCheck(t) ==
    /\ pc[t] = "get_check"
    /\ IF ~ocr_initialized
       THEN /\ pc' = Set(pc, t, "init_check")
            /\ caller' = Set(caller, t, "get")
       ELSE /\ pc' = Set(pc, t, "lookup")
            /\ UNCHANGED caller
    /\ UNCHANGED <<globalVars, lang_idx, tier, language, ret, ocr,
                   health_status, classifyVars, aggregateVars>>

(* Lines 154-155.                                                          *)
GetLookup(t) ==
    /\ pc[t] = "lookup"
    /\ ocr' = Set(ocr, t, <<Lookup(ocr_instances, language[t])>>)
    /\ pc' = Set(pc, t, "got")
    /\ UNCHANGED <<globalVars, caller, lang_idx, tier, language, ret,
                   health_status, classifyVars, aggregateVars>>

(* get_ocr_instance returned: process_file answers 503 on None (line 285)  *)
(* and runs the engine otherwise (lines 288-381); the thread is free again *)
(* and forgets its locals.                                                 *)
Finish(t) ==
    /\ pc[t] = "got"
    /\ pc' = Set(pc, t, "idle")
    /\ language' = Set(language, t, "")
    /\ ret' = Set(ret, t, FALSE)
    /\ ocr' = Set(ocr, t, <<>>)
    /\ UNCHANGED <<globalVars, caller, lang_idx, tier, health_status, classifyVars, aggregateVars>>

Init ==
    /\ ClassifyIdle
    /\ AggregateIdle
    /\ ServiceInit

Next ==
    \/ StartupPreload
    \/ ImportedAsModule
    \/ \E t \in RequestThreads : BeginInit(t)
    \/ \E t \in RequestThreads : BeginProcess(t)
    \/ \E t \in RequestThreads : BeginGet(t)
    \/ \E t \in RequestThreads : Health(t)
    \/ \E t \in Threads : InitCheck(t)
    \/ \E t \in Threads : ImportOk(t)
    \/ \E t \in Threads : ImportFails(t)
    \/ \E t \in Threads : ConstructOk(t)
    \/ \E t \in Threads : ConstructFails(t)
    \/ \E t \in Threads : SetFlag(t)
    \/ \E t \in Threads : InitReturn(t)
    \/ \E t \in RequestThreads : RejectFile(t)
    \/ \E t \in RequestThreads, l \in RequestLanguages : AcceptFile(t, l)
    \/ \E t \in RequestThreads : GetCheck(t)
    \/ \E t \in RequestThreads : GetLookup(t)
    \/ \E t \in RequestThreads : Finish(t)

Spec == Init /\ [][Next]_vars

----------------------------------------------------------------------------
(* Properties.  The geometry of a polygon is restated here on sets of      *)
(* coordinates and on the tangent of the threshold angle, independently of *)
(* the operators above.                                                    *)

Orientations == {"horizontal", "vertical", "rotated"}
Classified == orientation # <<>>
WellFormed(c) == \A i \in 1..Len(c) : Len(c[i]) = 2
SetMax(S) == CHOOSE m \in S : \A x \in S : x <= m
SetMin(S) == CHOOSE m \in S : \A x \in S : m <= x
Xs(c) == {c[i][1] : i \in 1..Len(c)}
Ys(c) == {c[i][2] : i \in 1..Len(c)}
BoxWidth(c) == SetMax(Xs(c)) - SetMin(Xs(c))
BoxHeight(c) == SetMax(Ys(c)) - SetMin(Ys(c))
Dx(c) == c[2][1] - c[1][1]
Dy(c) == c[2][2] - c[1][2]

(* 25 < |atan2(dy, dx)| in degrees < 155, i.e. |dy| / |dx| > tan 25 =      *)
(* 0.46630765..., or a vertical edge.                                      *)
Between25And155(dy, dx) ==
    \/ dx = 0 /\ dy # 0
    \/ dx # 0 /\ Abs(dy) * 10000000 > 4663076 * Abs(dx)

(* C1: detect_text_orientation_improved returns one of 'horizontal',       *)
(* 'vertical', 'rotated' for every input, and 'horizontal' whenever the    *)
(* input has fewer than 4 points or a point that cannot be indexed (the    *)
(* computation raises).                                                    *)
C1_ClassifyTotal ==
    Classified =>
        /\ Len(orientation) = 1
        /\ orientation[1] \in Orientations
        /\ (Len(coordinates) < 4 \/ ~WellFormed(coordinates))
               => orientation[1] = "horizontal"

C1_Witness ==
    /\ orientation = <<"horizontal">>
    /\ Len(coordinates) >= 4
    /\ ~WellFormed(coordinates)

(* C2: a polygon of at least 4 points whose bounding box has               *)
(* height / width > 2.5 (width > 0) is classified vertical, whatever the   *)
(* angle of its first edge.                                                *)
C2_TallIsVertical ==
    (/\ Classified
     /\ Len(coordinates) >= 4
     /\ WellFormed(coordinates)
     /\ BoxWidth(coordinates) > 0
     /\ 2 * BoxHeight(coordinates) > 5 * BoxWidth(coordinates))
        => orientation[1] = "vertical"

C2_Witness ==
    /\ orientation = <<"vertical">>
    /\ Len(coordinates) >= 4
    /\ WellFormed(coordinates)
    /\ BoxWidth(coordinates) > 0
    /\ 2 * BoxHeight(coordinates) > 5 * BoxWidth(coordinates)
    /\ Between25And155(Dy(coordinates), Dx(coordinates))

(* C3: a polygon of at least 4 points whose first edge has an angle        *)
(* strictly between 25 and 155 degrees and whose bounding box has          *)
(* height / width <= 2.5 is classified rotated.                            *)
C3_SteepIsRotated ==
    (/\ Classified
     /\ Len(coordinates) >= 4
     /\ WellFormed(coordinates)
     /\ BoxWidth(coordinates) > 0
     /\ 2 * BoxHeight(coordinates) <= 5 * BoxWidth(coordinates)
     /\ Between25And155(Dy(coordinates), Dx(coordinates)))
        => orientation[1] = "rotated"

C3_Witness ==
    /\ orientation = <<"rotated">>
    /\ Len(coordinates) >= 4
    /\ WellFormed(coordinates)
    /\ 10 * BoxHeight(coordinates) > 18 * BoxWidth(coordinates)
    /\ 2 * BoxHeight(coordinates) <= 5 * BoxWidth(coordinates)
    /\ Between25And155(Dy(coordinates), Dx(coordinates))

(* C4: a polygon (at least 4 points) whose points all share the same x is  *)
(* classified vertical, whatever its heights and the order of its points.  *)
C4_ZeroWidthIsVertical ==
    (/\ Classified
     /\ Len(coordinates) >= 4
     /\ WellFormed(coordinates)
     /\ \A i, j \in 1..Len(coordinates) :
            coordinates[i][1] = coordinates[j][1])
        => orientation[1] = "vertical"

C4_Witness ==
    /\ orientation = <<"vertical">>
    /\ Len(coordinates) >= 4
    /\ WellFormed(coordinates)
    /\ BoxWidth(coordinates) = 0
    /\ BoxHeight(coordinates) = 0

(* C5: with width > 0, height / width <= 1.8 and a first edge whose angle  *)
(* is not strictly between 25 and 155 degrees the result is horizontal;    *)
(* an axis-aligned square whose first edge is its top edge (angle 0) is    *)
(* such a polygon.                                                         *)
C5_DefaultIsHorizontal ==
    (/\ Classified
     /\ Len(coordinates) >= 2
     /\ WellFormed(coordinates)
     /\ BoxWidth(coordinates) > 0
     /\ 10 * BoxHeight(coordinates) <= 18 * BoxWidth(coordinates)
     /\ ~Between25And155(Dy(coordinates), Dx(coordinates)))
        => orientation[1] = "horizontal"

C5_Witness ==
    /\ orientation = <<"horizontal">>
    /\ Len(coordinates) = 4
    /\ WellFormed(coordinates)
    /\ BoxWidth(coordinates) > 0
    /\ BoxHeight(coordinates) = BoxWidth(coordinates)
    /\ Dy(coordinates) = 0
    /\ Dx(coordinates) = BoxWidth(coordinates)

(* C9 as written: the angle computed at line 178 lies in [0, 180), never   *)
(* 180.                                                                    *)
C9_AngleBelow180 ==
    angle # <<>> => angle[1] >= 0 /\ angle[1] < 180

(* C9 amended: the angle computed at line 178 lies in [0, 180], and it is  *)
(* 180 exactly when the second point lies directly to the left of the      *)
(* first on the same y.                                                    *)
C9_AngleUpTo180 ==
    angle # <<>> =>
        /\ angle[1] >= 0
        /\ angle[1] <= 180
        /\ angle[1] = 180 <=>
               (Dy(coordinates) = 0 /\ Dx(coordinates) < 0)

C9_Witness ==
    /\ angle = <<180>>
    /\ Dy(coordinates) = 0
    /\ Dx(coordinates) < 0

CountOf(cl, o) ==
    Cardinality({i \in 1..Len(cl) :
                    detect_text_orientation_improved(cl[i]) = o})

(* C6: the tally has exactly the keys horizontal, vertical and rotated,    *)
(* each entry is the number of polygons of the input classified so, and    *)
(* the entries sum to the length of the input (all zeros for the empty     *)
(* input).                                                                 *)
C6_TallyCounts ==
    orientations # <<>> =>
        LET tally == orientations[1]
        IN  /\ DOMAIN tally = Orientations
            /\ \A o \in Orientations :
                   tally[o] = CountOf(coordinates_list, o)
            /\ tally.horizontal + tally.vertical + tally.rotated
                   = Len(coordinates_list)
            /\ coordinates_list = <<>> => tally = EmptyTally

C6_Witness ==
    /\ Len(coordinates_list) = 3
    /\ orientations = <<[horizontal |-> 1, vertical |-> 1, rotated |-> 1]>>

(* C7: a list of polygons and any permutation of it give the same tally.   *)
C7_OrderIndependent ==
    (orientations # <<>> /\ orientations_perm # <<>>)
        => orientations = orientations_perm

C7_Witness ==
    /\ orientations # <<>>
    /\ orientations_perm # <<>>
    /\ Len(coordinates_list) = 3
    /\ permuted_list # coordinates_list
    /\ permuted_list[1] # coordinates_list[1]
    /\ orientations[1].rotated = 1

AllLoaded ==
    \A i \in 1..Len(supported_languages) :
        /\ supported_languages[i] \in DOMAIN ocr_instances
        /\ ocr_instances[supported_languages[i]] # None

(* C8 as written: the engine handle of each supported language is          *)
(* constructed at most once and never replaced.                            *)
C8_HandleCreatedOnce ==
    \A l \in DOMAIN created : created[l] <= 1

====
